---- MODULE Spec2Model ----
(***************************************************************************)
(* Model of dowel.csv_output.CsvOutput: a CSV writer whose column set      *)
(* grows as records arrive, rewriting the whole file when it must.         *)
(*                                                                         *)
(* The file is a sequence of lines, a line a sequence of cell texts.       *)
(* A value is a record [kind, text]: kind is the Python type of the value  *)
(* ("int", "str", "none", "list"), text its str() rendering.               *)
(***************************************************************************)
EXTENDS Naturals, Sequences, FiniteSets, TLC

VARIABLES
    _log_file,          \* lines of the file behind self._log_file
    pos,               \* position of the file handle, in lines
    _writer,            \* TRUE iff self._writer is not None
    _fieldnames,        \* self._fieldnames ({} stands for None while not _writer)
    order,             \* iteration order of the set self._fieldnames
    _warned_once,       \* self._warned_once
    _disable_warnings,      \* self._disable_warnings
    emitted,           \* messages handed to warnings.warn, in order
    pc,                \* line of record/rewriteCSV about to run, or "idle"
    datadict,          \* local datadict of the running record call
    csvdata,           \* local csvdata of the running rewriteCSV call
    next_row,          \* index in csvdata of the row the loop of line 90 visits next
    calls,             \* the arguments of all record calls so far
    results,           \* how each record call ended
    marks,             \* marks[i]: keys data.mark was called with in call i
    pre,               \* the writer as it was when the last record call began
    rewrites,          \* number of rewriteCSV calls so far
    ncalls             \* number of calls of any method so far

vars == <<_log_file, pos, _writer, _fieldnames, order, _warned_once, _disable_warnings,
          emitted, pc, datadict, csvdata, next_row, calls, results, marks, pre,
          rewrites, ncalls>>

fileVars == <<_log_file, pos, _writer, _fieldnames, order>>
warnVars == <<_warned_once, _disable_warnings, emitted>>
localVars == <<datadict, csvdata, next_row>>
probeVars == <<calls, results, marks, pre, rewrites>>

\* ------------------------------------------------------------------ bounds
MaxCalls == 3

\* ------------------------------------------------------------------ values
IntVal(t) == [kind |-> "int", text |-> t]
StrVal(t) == [kind |-> "str", text |-> t]
NoneVal == [kind |-> "none", text |-> ""]
ListVal == [kind |-> "list", text |-> "[]"]

EmptyRow == [k \in {} |-> NoneVal]

Keys(d) == DOMAIN d

\* as_primitive_dict of the TabularInput objects handed to record
RowX1 == [k \in {"x"} |-> IntVal("1")]
RowX2Y5 == [k \in {"x", "y"} |-> IF k = "x" THEN IntVal("2") ELSE IntVal("5")]
RowX3Y6 == [k \in {"x", "y"} |-> IF k = "x" THEN IntVal("3") ELSE IntVal("6")]
RowYBlank == [k \in {"y"} |-> StrVal("")]
RowZ1 == [k \in {"z"} |-> StrVal("1")]

Rows == {EmptyRow, RowX1, RowX2Y5, RowX3Y6, RowYBlank, RowZ1}

\* what a caller may pass to record: a TabularInput, or something else
Inputs ==
    [tab : {TRUE}, row : Rows] \cup [tab : {FALSE}, row : {EmptyRow}]

Msgs == {"m1", "m2"}

\* ------------------------------------------------------------ csv library
\* an iteration order of a set: every element once
Perms(S) ==
    { s \in [1..Cardinality(S) -> S] : \A a \in S : \E i \in DOMAIN s : s[i] = a }

\* the csv writer's rendering of one field: str(), with None as ''
Str(v) == IF v.kind = "none" THEN "" ELSE v.text

\* blank cells left out of the line
DictToListSkipBlank(rowdict, ord) ==
    LET present == SelectSeq(ord, LAMBDA k : k \in Keys(rowdict) /\ Str(rowdict[k]) # "")
    IN  [i \in 1..Len(present) |-> Str(rowdict[present[i]])]

\* DictWriter._dict_to_list with restval '' and extrasaction 'ignore'
DictToList(rowdict, ord) ==
    [i \in 1..Len(ord) |->
        IF ord[i] \in Keys(rowdict) THEN Str(rowdict[ord[i]]) ELSE ""]

\* the header written in another order than the rows
HeaderLineReversed(ord) ==
    [i \in 1..Len(ord) |-> ord[Len(ord) + 1 - i]]

\* DictWriter.writeheader: the row dict(zip(fieldnames, fieldnames))
HeaderLine(ord) ==
    DictToList([k \in {ord[i] : i \in 1..Len(ord)} |-> StrVal(k)], ord)

\* file.write of one line at the handle's position
WriteAt(file, p, line) ==
    IF p >= Len(file) THEN Append(file, line)
    ELSE SubSeq(file, 1, p) \o <<line>> \o SubSeq(file, p + 2, Len(file))

RestKey == "<restkey>"

\* DictReader.__next__: one line against the header
DictOfLine(hdr, line) ==
    LET names == {hdr[i] : i \in 1..Len(hdr)}
        last(k) == CHOOSE i \in 1..Len(hdr) :
                      /\ hdr[i] = k
                      /\ \A j \in 1..Len(hdr) : hdr[j] = k => j <= i
        extra == IF Len(line) > Len(hdr) THEN {RestKey} ELSE {}
    IN  [k \in names \cup extra |->
            IF k \in names
            THEN IF last(k) <= Len(line) THEN StrVal(line[last(k)]) ELSE NoneVal
            ELSE ListVal]

\* [row for row in csv.DictReader(f)] over the lines from the handle's position
DictReader(file, p) ==
    LET lines == SubSeq(file, p + 1, Len(file))
    IN  IF lines = <<>> THEN <<>>
        ELSE LET hdr == Head(lines)
                 body == SelectSeq(Tail(lines), LAMBDA l : l # <<>>)
             IN  [i \in 1..Len(body) |-> DictOfLine(hdr, body[i])]

\* ------------------------------------------------------------- CsvOutput
\* the type check left out: any object is taken for a TabularInput
IsTabularAny(data) == TRUE

\* line 31: isinstance(data, TabularInput)
IsTabular(data) == data.tab

\* the early return taken for every empty row, header or not
EmptyBeforeHeaderAlways(d, w) == Keys(d) = {}

\* the early return left out
EmptyBeforeHeaderNever(d, w) == FALSE

\* line 34: not datadict.keys() and not self._writer
EmptyBeforeHeader(d, w) == Keys(d) = {} /\ ~w

\* equality in place of issuperset
HasNewKeysUnlessEqual(fields, d) == Keys(d) # fields

\* line 46: not self._fieldnames.issuperset(datadict.keys())
HasNewKeys(fields, d) == ~(Keys(d) \subseteq fields)

\* the padding left out: the csv writer's restval fills the line
PadDatadictNone(d, fields) == d

\* lines 51-53: a blank value for every field the latest row lacks
PadDatadict(d, fields) ==
    [k \in Keys(d) \cup fields |-> IF k \in Keys(d) THEN d[k] ELSE StrVal("")]

\* keys with a blank value skipped
MarkedKeysNonBlank(d) == {k \in Keys(d) : d[k].text # ""}

\* lines 56-57: the keys data.mark is called with
MarkedKeys(d) == Keys(d)

\* the rows read back in reverse
ReadBackReversed(file, p) ==
    LET rows == DictReader(file, 0)
    IN  [i \in 1..Len(rows) |-> rows[Len(rows) + 1 - i]]

\* the seek(0) left out: the reader starts where the handle stands
ReadBackNoSeek(file, p) == DictReader(file, p)

\* lines 72-74: seek(0), then read every row through a DictReader
ReadBack(file, p) == DictReader(file, 0)

\* the test of line 82 turned round: no key is ever added
ExpandFieldnamesNone(fields, keys) == fields

\* the field set replaced by the new row's keys
ExpandFieldnamesReplace(fields, keys) == keys

\* lines 81-83: add every key of the new row to self._fieldnames
ExpandFieldnames(fields, keys) == fields \cup keys

\* the test of line 94 left out: every field of an old row blanked
PadCsvRowBlankAll(row, fields) ==
    [k \in Keys(row) \cup fields |-> StrVal("")]

\* lines 93-95: a blank value for every field an old row lacks
PadCsvRow(row, fields) ==
    [k \in Keys(row) \cup fields |-> IF k \in Keys(row) THEN row[k] ELSE StrVal("")]

Snapshot ==
    [log_file |-> _log_file, writer |-> _writer, fieldnames |-> _fieldnames,
     order |-> order, rewrites |-> rewrites, marks |-> marks]

Init ==
    /\ _log_file = <<>>
    /\ pos = 0
    /\ _writer = FALSE
    /\ _fieldnames = {}
    /\ order = <<>>
    /\ _warned_once = {}
    /\ _disable_warnings = FALSE
    /\ emitted = <<>>
    /\ pc = "idle"
    /\ datadict = EmptyRow
    /\ csvdata = <<>>
    /\ next_row = 0
    /\ calls = <<>>
    /\ results = <<>>
    /\ marks = <<>>
    /\ pre = [log_file |-> <<>>, writer |-> FALSE, fieldnames |-> {},
              order |-> <<>>, rewrites |-> 0, marks |-> <<>>]
    /\ rewrites = 0
    /\ ncalls = 0

\* a record call begins: the probes note the argument and the writer's state
Enter(data, result) ==
    /\ pc = "idle"
    /\ ncalls < MaxCalls
    /\ ncalls' = ncalls + 1
    /\ calls' = Append(calls, data)
    /\ results' = Append(results, result)
    /\ marks' = Append(marks, {})
    /\ pre' = Snapshot

\* record, lines 31 and 58-59: anything but a TabularInput raises ValueError
record_raise(data) ==
    /\ ~IsTabular(data)
    /\ Enter(data, "ValueError")
    /\ UNCHANGED <<fileVars, warnVars, localVars, pc, rewrites>>

\* record, lines 34-35: an empty row before the first header returns at once
record_noop(data) ==
    /\ IsTabular(data)
    /\ EmptyBeforeHeader(data.row, _writer)
    /\ Enter(data, "noop")
    /\ UNCHANGED <<fileVars, warnVars, localVars, pc, rewrites>>

\* record, lines 31-34: the call goes on with datadict
record_enter(data) ==
    /\ IsTabular(data)
    /\ ~EmptyBeforeHeader(data.row, _writer)
    /\ Enter(data, "running")
    /\ datadict' = data.row
    /\ pc' = "l38"
    /\ UNCHANGED <<fileVars, warnVars, csvdata, next_row, rewrites>>

\* record, lines 38-43: the first call makes the field set and writes the header
record_header ==
    /\ pc = "l38"
    /\ IF ~_writer
       THEN /\ _fieldnames' = Keys(datadict)
            /\ order' \in Perms(Keys(datadict))
            /\ _writer' = TRUE
            /\ _log_file' = WriteAt(_log_file, pos, HeaderLine(order'))
            /\ pos' = pos + 1
       ELSE UNCHANGED fileVars
    /\ pc' = "l46"
    /\ UNCHANGED <<warnVars, localVars, probeVars, ncalls>>

\* record, lines 46-47: new keys call rewriteCSV
record_check ==
    /\ pc = "l46"
    /\ IF HasNewKeys(_fieldnames, datadict)
       THEN pc' = "l72" /\ rewrites' = rewrites + 1
       ELSE pc' = "l51" /\ UNCHANGED rewrites
    /\ UNCHANGED <<fileVars, warnVars, localVars, calls, results, marks, pre, ncalls>>

\* rewriteCSV, lines 72-74: read the file into csvdata
rewriteCSV_read ==
    /\ pc = "l72"
    /\ csvdata' = ReadBack(_log_file, pos)
    /\ pos' = Len(_log_file)
    /\ pc' = "l77"
    /\ UNCHANGED <<_log_file, _writer, _fieldnames, order, warnVars, datadict,
                   next_row, probeVars, ncalls>>

\* the truncate(0) left out: only seek(0)
rewriteCSV_seek_only ==
    /\ pc = "l77"
    /\ pos' = 0
    /\ pc' = "l81"
    /\ UNCHANGED <<_log_file, _writer, _fieldnames, order, warnVars, localVars,
                   probeVars, ncalls>>

\* rewriteCSV, lines 77-78: truncate(0), seek(0)
rewriteCSV_truncate ==
    /\ pc = "l77"
    /\ _log_file' = <<>>
    /\ pos' = 0
    /\ pc' = "l81"
    /\ UNCHANGED <<_writer, _fieldnames, order, warnVars, localVars, probeVars, ncalls>>

\* rewriteCSV, lines 81-87: grow the field set, make a writer over it
rewriteCSV_expand ==
    /\ pc = "l81"
    /\ _fieldnames' = ExpandFieldnames(_fieldnames, Keys(datadict))
    /\ order' \in Perms(_fieldnames')
    /\ _writer' = TRUE
    /\ pc' = "l89"
    /\ UNCHANGED <<_log_file, pos, warnVars, localVars, probeVars, ncalls>>

\* rewriteCSV, line 89: writeheader
rewriteCSV_header ==
    /\ pc = "l89"
    /\ _log_file' = WriteAt(_log_file, pos, HeaderLine(order))
    /\ pos' = pos + 1
    /\ next_row' = 1
    /\ pc' = "l90"
    /\ UNCHANGED <<_writer, _fieldnames, order, warnVars, datadict, csvdata,
                   probeVars, ncalls>>

\* rewriteCSV, lines 90-97: one turn of the loop pads an old row and writes it
rewriteCSV_row ==
    /\ pc = "l90"
    /\ next_row <= Len(csvdata)
    /\ LET row == PadCsvRow(csvdata[next_row], _fieldnames)
       IN  /\ csvdata' = [csvdata EXCEPT ![next_row] = row]
           /\ _log_file' = WriteAt(_log_file, pos, DictToList(row, order))
    /\ pos' = pos + 1
    /\ next_row' = next_row + 1
    /\ UNCHANGED <<_writer, _fieldnames, order, warnVars, datadict, pc,
                   probeVars, ncalls>>

\* rewriteCSV returns to line 49 of record when the loop is done
rewriteCSV_return ==
    /\ pc = "l90"
    /\ next_row > Len(csvdata)
    /\ csvdata' = <<>>
    /\ next_row' = 0
    /\ pc' = "l51"
    /\ UNCHANGED <<fileVars, warnVars, datadict, probeVars, ncalls>>

\* record, lines 51-53: pad the latest row
record_pad ==
    /\ pc = "l51"
    /\ datadict' = PadDatadict(datadict, _fieldnames)
    /\ pc' = "l54"
    /\ UNCHANGED <<fileVars, warnVars, csvdata, next_row, probeVars, ncalls>>

\* record, line 54: writerow(datadict)
record_writerow ==
    /\ pc = "l54"
    /\ _log_file' = WriteAt(_log_file, pos, DictToList(datadict, order))
    /\ pos' = pos + 1
    /\ pc' = "l56"
    /\ UNCHANGED <<_writer, _fieldnames, order, warnVars, localVars, probeVars, ncalls>>

\* record, lines 56-57: mark every key of datadict on data, then return
record_mark ==
    /\ pc = "l56"
    /\ marks' = [marks EXCEPT ![Len(marks)] = MarkedKeys(datadict)]
    /\ results' = [results EXCEPT ![Len(results)] = "ok"]
    /\ datadict' = EmptyRow
    /\ pc' = "idle"
    /\ UNCHANGED <<fileVars, warnVars, csvdata, next_row, calls, pre, rewrites, ncalls>>

\* the _disable_warnings flag never looked at
_warn_ignores_flag(msg) ==
    /\ pc = "idle"
    /\ ncalls < MaxCalls
    /\ ncalls' = ncalls + 1
    /\ emitted' = IF msg \notin _warned_once
                  THEN Append(emitted, msg) ELSE emitted
    /\ _warned_once' = _warned_once \cup {msg}
    /\ UNCHANGED <<fileVars, _disable_warnings, localVars, pc, probeVars>>

\* the message never remembered
_warn_forgetful(msg) ==
    /\ pc = "idle"
    /\ ncalls < MaxCalls
    /\ ncalls' = ncalls + 1
    /\ emitted' = IF ~_disable_warnings /\ msg \notin _warned_once
                  THEN Append(emitted, msg) ELSE emitted
    /\ UNCHANGED <<fileVars, _warned_once, _disable_warnings, localVars, pc, probeVars>>

\* _warn, lines 105-110
_warn(msg) ==
    /\ pc = "idle"
    /\ ncalls < MaxCalls
    /\ ncalls' = ncalls + 1
    /\ emitted' = IF ~_disable_warnings /\ msg \notin _warned_once
                  THEN Append(emitted, msg) ELSE emitted
    /\ _warned_once' = _warned_once \cup {msg}
    /\ UNCHANGED <<fileVars, _disable_warnings, localVars, pc, probeVars>>

\* disable_warnings, line 114
disable_warnings ==
    /\ pc = "idle"
    /\ ncalls < MaxCalls
    /\ ncalls' = ncalls + 1
    /\ _disable_warnings' = TRUE
    /\ UNCHANGED <<fileVars, _warned_once, emitted, localVars, pc, probeVars>>

Next ==
    \/ \E data \in Inputs : record_raise(data)
    \/ \E data \in Inputs : record_noop(data)
    \/ \E data \in Inputs : record_enter(data)
    \/ record_header
    \/ record_check
    \/ rewriteCSV_read
    \/ rewriteCSV_truncate
    \/ rewriteCSV_expand
    \/ rewriteCSV_header
    \/ rewriteCSV_row
    \/ rewriteCSV_return
    \/ record_pad
    \/ record_writerow
    \/ record_mark
    \/ \E msg \in Msgs : _warn(msg)
    \/ disable_warnings

Spec == Init /\ [][Next]_vars

\* ------------------------------------------------------------ the file read
\* number of record calls so far, and the last one
N == Len(calls)
LastRow == calls[N].row

\* union of the keys of every row handed to record so far
SeenKeys == UNION {Keys(calls[i].row) : i \in 1..N}

\* the column names of the header line of a file
HeaderOf(file) == IF file = <<>> THEN {} ELSE {file[1][i] : i \in 1..Len(file[1])}

\* the data lines of a file
DataLines(file) == IF file = <<>> THEN <<>> ELSE Tail(file)

\* the cell of a data line that stands under column k of the file's header
CellOf(file, line, k) ==
    LET at == {i \in 1..Len(file[1]) : file[1][i] = k}
    IN  {line[i] : i \in at \cap (1..Len(line))}

\* the line a row makes under a column order: its value's text, or blank
LineOf(row, ord) ==
    [i \in 1..Len(ord) |-> IF ord[i] \in Keys(row) THEN row[ord[i]].text ELSE ""]

Returned == pc = "idle"

\* ------------------------------------------------------------------ claims
\* C1: after each record call returns, the column names of the header on disk
\* are exactly the union of the keys of all rows recorded so far, each once;
\* while that union is empty the file has no header.
C1_HeaderIsUnionOfKeys ==
    Returned =>
        IF SeenKeys = {}
        THEN _log_file = <<>>
        ELSE /\ _log_file # <<>>
             /\ HeaderOf(_log_file) = SeenKeys
             /\ Len(_log_file[1]) = Cardinality(SeenKeys)

C1_Witness ==
    /\ Returned
    /\ rewrites >= 2
    /\ Cardinality(SeenKeys) = 3
    /\ HeaderOf(_log_file) = SeenKeys

\* C2: after any prefix of record calls, every data line on disk has exactly
\* one cell under every column of the header on disk and no other cell.
C2_RowsComplete ==
    Returned =>
        \A i \in 1..Len(DataLines(_log_file)) :
            LET line == DataLines(_log_file)[i]
            IN  /\ Len(line) = Len(_log_file[1])
                /\ \A k \in HeaderOf(_log_file) :
                      Cardinality(CellOf(_log_file, line, k)) = 1

C2_Witness ==
    /\ Returned
    /\ rewrites >= 1
    /\ Len(_log_file) >= 3
    /\ \E i \in 2..Len(_log_file) : \E j \in 1..Len(_log_file[i]) : _log_file[i][j] = ""
    /\ \E i \in 2..Len(_log_file) : \E j \in 1..Len(_log_file[i]) : _log_file[i][j] # ""

\* C3: a record call that rewrites keeps every earlier data row, in place,
\* with its earlier text in every column it had and blank in every new column.
C3_RewriteKeepsRows ==
    (Returned /\ rewrites > pre.rewrites) =>
        LET old == DataLines(pre.log_file)
            new == DataLines(_log_file)
        IN  /\ Len(new) = Len(old) + 1
            /\ \A i \in 1..Len(old) :
                  /\ \A k \in pre.fieldnames :
                        CellOf(_log_file, new[i], k) = CellOf(pre.log_file, old[i], k)
                  /\ \A k \in _fieldnames \ pre.fieldnames :
                        CellOf(_log_file, new[i], k) = {""}

C3_Witness ==
    /\ Returned
    /\ rewrites > pre.rewrites
    /\ Len(pre.log_file) >= 3
    /\ \E i \in 2..Len(pre.log_file) : \E j \in 1..Len(pre.log_file[i]) :
          pre.log_file[i][j] # ""

\* C4: a record call on a writer with a header whose row brings no new key
\* never rewrites: field set, column order, header and earlier lines stay,
\* and the file grows by the one line of the row in header order, blank
\* where the row has no value.
C4_FastPathAppends ==
    (N > 0 /\ calls[N].tab /\ pre.writer /\ Keys(LastRow) \subseteq pre.fieldnames) =>
        /\ rewrites = pre.rewrites
        /\ _fieldnames = pre.fieldnames
        /\ order = pre.order
        /\ pc \notin {"l72", "l77", "l81", "l89", "l90"}
        /\ SubSeq(_log_file, 1, Len(pre.log_file)) = pre.log_file
        /\ Returned => _log_file = Append(pre.log_file, LineOf(LastRow, pre.log_file[1]))

C4_Witness ==
    /\ Returned
    /\ N = 3
    /\ calls[N].tab /\ pre.writer
    /\ Keys(LastRow) # {}
    /\ Keys(LastRow) # pre.fieldnames
    /\ Keys(LastRow) \subseteq pre.fieldnames
    /\ Len(_log_file) = 4

\* C5: record with an empty mapping before any header is a no-op: the file
\* stays empty, the field set stays unset, no key is marked; and the first
\* non-empty record after it still writes the header and the first row.
C5_EmptyRowBeforeHeader ==
    /\ (N > 0 /\ calls[N].tab /\ LastRow = EmptyRow /\ ~pre.writer) =>
          /\ Returned
          /\ results[N] = "noop"
          /\ _log_file = <<>>
          /\ ~_writer
          /\ _fieldnames = {}
          /\ order = <<>>
          /\ marks[N] = {}
          /\ rewrites = pre.rewrites
    /\ (Returned /\ N > 0 /\ calls[N].tab /\ LastRow # EmptyRow /\ ~pre.writer) =>
          /\ _writer
          /\ _fieldnames = Keys(LastRow)
          /\ Len(_log_file) = 2
          /\ HeaderOf(_log_file) = Keys(LastRow)
          /\ _log_file[2] = LineOf(LastRow, _log_file[1])

C5_Witness ==
    /\ Returned
    /\ N = 3
    /\ calls[1].tab /\ calls[1].row = EmptyRow /\ results[1] = "noop"
    /\ calls[2].tab /\ calls[2].row = EmptyRow /\ results[2] = "noop"
    /\ LastRow # EmptyRow /\ results[3] = "ok"
    /\ Len(_log_file) = 2

\* C6: record of anything but a TabularInput raises ValueError, with or
\* without a header, and leaves file, field set and marks as they were.
C6_UnacceptableTypeRaises ==
    (N > 0 /\ ~calls[N].tab) =>
        /\ Returned
        /\ results[N] = "ValueError"
        /\ _log_file = pre.log_file
        /\ _writer = pre.writer
        /\ _fieldnames = pre.fieldnames
        /\ order = pre.order
        /\ rewrites = pre.rewrites
        /\ marks = Append(pre.marks, {})

C6_Witness ==
    /\ N = 3
    /\ ~calls[1].tab /\ results[1] = "ValueError"
    /\ calls[2].tab /\ results[2] = "ok"
    /\ ~calls[3].tab /\ results[3] = "ValueError"
    /\ Len(_log_file) = 2

\* C7: record {x:1}, {x:2,y:5}, {x:3,y:6} on a fresh writer: header x and row
\* 1; then one rewrite to header x,y with rows (1, blank) and (2, 5); then
\* (3, 6) appended without a rewrite: three data rows, one rewrite in all.
Scenario ==
    << [tab |-> TRUE, row |-> RowX1],
       [tab |-> TRUE, row |-> RowX2Y5],
       [tab |-> TRUE, row |-> RowX3Y6] >>

C7_Scenario ==
    /\ (Returned /\ calls = SubSeq(Scenario, 1, 1)) =>
          /\ rewrites = 0
          /\ _log_file = << <<"x">>, <<"1">> >>
    /\ (Returned /\ calls = SubSeq(Scenario, 1, 2)) =>
          /\ rewrites = 1
          /\ HeaderOf(_log_file) = {"x", "y"}
          /\ Len(_log_file) = 3
          /\ CellOf(_log_file, _log_file[2], "x") = {"1"}
          /\ CellOf(_log_file, _log_file[2], "y") = {""}
          /\ CellOf(_log_file, _log_file[3], "x") = {"2"}
          /\ CellOf(_log_file, _log_file[3], "y") = {"5"}
    /\ calls = Scenario =>
          /\ rewrites = 1
          /\ Returned =>
                /\ HeaderOf(_log_file) = {"x", "y"}
                /\ Len(_log_file) = 4
                /\ SubSeq(_log_file, 1, 3) = pre.log_file
                /\ CellOf(_log_file, _log_file[2], "x") = {"1"}
                /\ CellOf(_log_file, _log_file[2], "y") = {""}
                /\ CellOf(_log_file, _log_file[3], "x") = {"2"}
                /\ CellOf(_log_file, _log_file[3], "y") = {"5"}
                /\ CellOf(_log_file, _log_file[4], "x") = {"3"}
                /\ CellOf(_log_file, _log_file[4], "y") = {"6"}

C7_Witness ==
    /\ Returned
    /\ calls = Scenario
    /\ results = <<"ok", "ok", "ok">>
    /\ Len(_log_file) = 4

\* C8: once the field set exists no step of any call removes a column from
\* it or unsets it.
C8_ColumnSetGrows ==
    [][_writer => (_writer' /\ _fieldnames \subseteq _fieldnames')]_vars

C8_Witness ==
    /\ Returned
    /\ pre.writer
    /\ pre.fieldnames # {}
    /\ pre.fieldnames # _fieldnames
    /\ pre.fieldnames \subseteq _fieldnames

\* C9: a record call that wrote its row has marked every key of the row,
\* and marks are only made once the row is the last line of the file; a
\* call that returned early or raised marks nothing.
C9_KeysMarkedAfterWrite ==
    /\ \A i \in 1..N :
          /\ results[i] = "ok" => Keys(calls[i].row) \subseteq marks[i]
          /\ results[i] # "ok" => marks[i] = {}
    /\ (N > 0 /\ marks[N] # {}) =>
          /\ Len(DataLines(_log_file)) = Len(DataLines(pre.log_file)) + 1
          /\ _log_file[Len(_log_file)] = LineOf(LastRow, _log_file[1])

C9_Witness ==
    /\ Returned
    /\ N = 3
    /\ results[N] = "ok"
    /\ rewrites > pre.rewrites
    /\ Keys(LastRow) # {}
    /\ Keys(LastRow) \subseteq marks[N]
    /\ results[1] = "noop" /\ marks[1] = {}
    /\ marks[2] # {}

\* C10: whatever _warn calls are made, no message text is handed to
\* warnings.warn twice.
C10_WarnedOnce ==
    \A i, j \in 1..Len(emitted) : emitted[i] = emitted[j] => i = j

C10_Witness ==
    /\ emitted = <<"m1">>
    /\ _warned_once = {"m1"}
    /\ ~_disable_warnings
    /\ N = 0
    /\ ncalls = 3

\* C11: once disable_warnings has run, no later step hands any message to
\* warnings.warn and the flag stays set; a _warn or disable_warnings call
\* leaves the file, the writer and the field set as they were.
C11_DisabledWarnsNothing ==
    [][ /\ _disable_warnings => (_disable_warnings' /\ emitted' = emitted)
        /\ (pc = "idle" /\ pc' = "idle" /\ calls' = calls) =>
              UNCHANGED <<_log_file, pos, _writer, _fieldnames, order>> ]_vars

C11_Witness ==
    /\ _disable_warnings
    /\ emitted = <<>>
    /\ _warned_once = {"m1"}
    /\ ncalls = 3
    /\ N = 1 /\ results[1] = "ok"
    /\ Len(_log_file) = 2

\* C12: in a record call that rewrites, the row of the call is written after
\* every earlier row: until line 54 runs the file never has more lines than
\* before the call, and at return the earlier rows stand in their earlier
\* order, followed by the row of the call as the last line, blank under
\* every column of the final field set it has no value for.
C12_TriggeringRowLast ==
    (N > 0 /\ rewrites > pre.rewrites) =>
        /\ pc \in {"l72", "l77", "l81", "l89", "l90", "l51", "l54"} =>
              Len(_log_file) <= Len(pre.log_file)
        /\ pc \in {"l51", "l54"} =>
              /\ Len(_log_file) = Len(pre.log_file)
              /\ \A i \in 2..Len(_log_file) : \A k \in pre.fieldnames :
                    CellOf(_log_file, _log_file[i], k) =
                        CellOf(pre.log_file, pre.log_file[i], k)
        /\ pc \in {"l56", "idle"} =>
              /\ Len(_log_file) = Len(pre.log_file) + 1
              /\ HeaderOf(_log_file) = pre.fieldnames \cup Keys(LastRow)
              /\ \A i \in 2..Len(pre.log_file) : \A k \in pre.fieldnames :
                    CellOf(_log_file, _log_file[i], k) =
                        CellOf(pre.log_file, pre.log_file[i], k)
              /\ \A k \in HeaderOf(_log_file) :
                    CellOf(_log_file, _log_file[Len(_log_file)], k) =
                        IF k \in Keys(LastRow) THEN {LastRow[k].text} ELSE {""}

C12_Witness ==
    /\ Returned
    /\ rewrites > pre.rewrites
    /\ Len(pre.log_file) = 3
    /\ pre.log_file[2] # pre.log_file[3]
    /\ pre.fieldnames \ Keys(LastRow) # {}

\* C13: at every step of a rewrite each data row written before the call is
\* either still on disk or held in csvdata with its values under its column
\* names: the file is emptied only once csvdata holds them all.
C13_RowsHeldDuringRewrite ==
    (N > 0 /\ rewrites > pre.rewrites) =>
        /\ pc = "l72" => _log_file = pre.log_file
        /\ pc = "l77" => _log_file = pre.log_file
        /\ pc \in {"l77", "l81", "l89", "l90"} =>
              /\ Len(csvdata) = Len(DataLines(pre.log_file))
              /\ \A i \in 1..Len(csvdata) : \A k \in pre.fieldnames :
                    /\ k \in Keys(csvdata[i])
                    /\ {csvdata[i][k].text} =
                          CellOf(pre.log_file, DataLines(pre.log_file)[i], k)

C13_Witness ==
    /\ pc = "l81"
    /\ _log_file = <<>>
    /\ Len(csvdata) = 2
    /\ Len(pre.log_file) = 3

\* C14: a rewrite is not atomic on disk: from the truncation to the header
\* the file is empty, and while the loop of line 90 has rows left the file
\* is a header with fewer data rows than were on disk before the call.
InRewrite == N > 0 /\ rewrites > pre.rewrites /\ pc \in {"l72", "l77", "l81", "l89", "l90"}

C14_RewriteNotAtomic ==
    InRewrite =>
        /\ pc \in {"l81", "l89"} => _log_file = <<>>
        /\ pc = "l90" =>
              /\ Len(_log_file) = next_row
              /\ Len(DataLines(_log_file)) = next_row - 1
              /\ next_row <= Len(csvdata) =>
                    Len(DataLines(_log_file)) < Len(DataLines(pre.log_file))

C14_Witness ==
    /\ InRewrite
    /\ pc = "l90"
    /\ next_row = 2
    /\ Len(csvdata) = 2
    /\ Len(DataLines(pre.log_file)) = 2
    /\ Len(DataLines(_log_file)) = 1

\* C15 as stated: whenever a rewrite has truncated the file, the field set
\* already holds the keys of the row of the call.
C15_ExpandedBeforeTruncate ==
    (InRewrite /\ pc \in {"l81", "l89", "l90"}) => Keys(datadict) \subseteq _fieldnames

\* C15 amended: a rewrite truncates the file before it grows the field set:
\* up to and right after the truncation the field set is the one from before
\* the call and lacks a key of the row, and from the writing of the header on
\* it is the earlier set plus the keys of the row, which the header shows.
C15_TruncatedBeforeExpand ==
    InRewrite =>
        /\ pc \in {"l72", "l77", "l81"} =>
              /\ _fieldnames = pre.fieldnames
              /\ ~(Keys(datadict) \subseteq _fieldnames)
        /\ pc = "l81" => _log_file = <<>>
        /\ pc \in {"l89", "l90"} =>
              _fieldnames = pre.fieldnames \cup Keys(datadict)
        /\ pc = "l90" => HeaderOf(_log_file) = pre.fieldnames \cup Keys(datadict)

C15_Witness ==
    /\ InRewrite
    /\ pc = "l81"
    /\ _log_file = <<>>
    /\ Len(pre.log_file) >= 2
    /\ Len(csvdata) >= 1
    /\ ~(Keys(datadict) \subseteq _fieldnames)

\* the record calls that got past lines 31-35, in call order: a TabularInput,
\* and not an empty row while no non-empty row had come yet
Indices == [i \in 1..N |-> i]
Written ==
    SelectSeq(Indices, LAMBDA i :
        /\ calls[i].tab
        /\ \E j \in 1..i : calls[j].tab /\ Keys(calls[j].row) # {})

\* C16: the header line on disk is always in the order the writer puts the
\* cells of a row in, so at every return each data line read by the position
\* of a column name in the header gives the text of the value recorded under
\* that name, and blank where none was recorded; rows a rewrite has put back
\* read as they did before the call.
C16_CellsUnderTheirColumn ==
    /\ _log_file # <<>> => _log_file[1] = order
    /\ Returned =>
          \A j \in 1..Len(Written) :
              j + 1 <= Len(_log_file) =>
                  \A k \in HeaderOf(_log_file) :
                      CellOf(_log_file, _log_file[j + 1], k) =
                          IF k \in Keys(calls[Written[j]].row)
                          THEN {calls[Written[j]].row[k].text}
                          ELSE {""}
    /\ (InRewrite /\ pc = "l90") =>
          \A i \in 2..Len(_log_file) : \A k \in pre.fieldnames :
              CellOf(_log_file, _log_file[i], k) =
                  CellOf(pre.log_file, pre.log_file[i], k)

C16_Witness ==
    /\ Returned
    /\ rewrites = 2
    /\ Len(_log_file) = 4
    /\ Len(order) = 3
    /\ order[1] = "z" /\ order[2] = "x" /\ order[3] = "y"
    /\ pre.order[1] = "y"

\* C17: at every return the file has one data line for each record call that
\* passed a TabularInput and was not an empty row before the first header,
\* the lines in call order; an empty row with a header present is written as
\* a line of blank cells.
C17_OneRowPerAcceptedCall ==
    /\ Returned =>
          /\ Len(DataLines(_log_file)) = Len(Written)
          /\ \A j \in 1..Len(Written) :
                DataLines(_log_file)[j] = LineOf(calls[Written[j]].row, _log_file[1])
    /\ (N > 0 /\ calls[N].tab /\ LastRow = EmptyRow /\ pre.writer) =>
          /\ results[N] # "noop"
          /\ Returned =>
                /\ results[N] = "ok"
                /\ _log_file =
                      Append(pre.log_file, [i \in 1..Len(pre.log_file[1]) |-> ""])

C17_Witness ==
    /\ Returned
    /\ N = 3
    /\ calls[1].tab /\ calls[1].row # EmptyRow
    /\ calls[2].tab /\ calls[2].row = EmptyRow /\ results[2] = "ok"
    /\ rewrites > pre.rewrites
    /\ Len(_log_file) = 4
    /\ \A i \in 1..Len(_log_file[3]) : _log_file[3][i] = ""

\* C18: a record call that wrote its row has marked every column of the
\* field set as it is after the call, the ones the row had no value for too.
C18_PaddedKeysMarked ==
    (Returned /\ N > 0 /\ results[N] = "ok") => marks[N] = _fieldnames

C18_Witness ==
    /\ Returned
    /\ N > 0
    /\ results[N] = "ok"
    /\ Keys(LastRow) # {}
    /\ marks[N] \ Keys(LastRow) # {}
    /\ marks[N] = _fieldnames

====
